---------------------------- MODULE Spec2Model ----------------------------
(***************************************************************************)
(* Strava dashboard (src/dashboard_cloud.py, src/dashboard.py): the fetch  *)
(* loop, the normalisation of raw activity records into a dataframe, the   *)
(* period statistics, the load-risk classification, the pace formatting    *)
(* and the weekly totals.                                                  *)
(*                                                                         *)
(* Representation.                                                         *)
(*  - Python None / pandas NaN, NaT, <NA> is the empty tuple <<>>; a       *)
(*    present value v is the one-element tuple <<v>>.                      *)
(*  - Floats are exact fixed-point numbers: distance_km and calories carry *)
(*    three decimals (the value times 1000), moving_time_min is counted in *)
(*    sixtieths of a minute.  Quotients (pace, delta_run_pct) are exact    *)
(*    fractions [num, den] with den > 0.  Binary rounding of the floats is *)
(*    not modelled.                                                        *)
(*  - A timestamp is a number of ticks (TicksPerDay per day) since         *)
(*    midnight of the civil day BaseDay.                                   *)
(***************************************************************************)
EXTENDS Integers, Sequences, FiniteSets, TLC

VARIABLES
    pc,                \* position in the script
    page,              \* fetch_activities: next page number
    resp,              \* fetch_activities: last response [status, body]
    all_activities,    \* fetch_activities: records accumulated
    df,                \* the dataframe (sequence of rows)
    ref_date,          \* report: date of the last activity, normalized
    stats_7d, stats_30d, stats_prev_7d,
    run_dist_7d, run_dist_prev_7d,
    delta_run_pct, risque_charge,
    min_per_km,        \* format_pace: argument
    pace_text,         \* format_pace: result
    start_limit,       \* compute_period_stats: argument of the last call
    stats,             \* compute_period_stats: result of the last call
    weekly             \* compute_weekly_totals: result

vars == <<pc, page, resp, all_activities, df, ref_date, stats_7d, stats_30d,
          stats_prev_7d, run_dist_7d, run_dist_prev_7d, delta_run_pct,
          risque_charge, min_per_km, pace_text, start_limit, stats, weekly>>

---------------------------------------------------------------------------
(* Bounds of the model *)

MaxActs == 2          \* records the service holds (pipeline specifications)
MaxPage == 3          \* page numbers are counted up to here (fetch specification)
MaxCurM == 13100      \* RiskSpec: current distance, metres
MaxPrevKm == 10       \* RiskSpec: previous distance, whole kilometres
MaxPaceMilli == 6100  \* PaceSpec: pace, thousandths of a minute per km
MaxLimit == 6         \* PeriodSpec: start_limit, ticks

(* Program constants *)

ATHLETE_WEIGHT_KG == 89
KJ_TO_KCAL_MILLI == 239       \* 0.239, three decimals
ELEVE_PCT == 30
MODERE_PCT == 20
BASSE_PCT == -10

(* Units *)

Milli == 1000                 \* three decimals of distance_km and calories
TicksPerDay == 2              \* a tick is twelve hours
BaseDay == 19345              \* 2022-12-19 (a Monday), days since 1970-01-01

---------------------------------------------------------------------------
(* None and the Python operators the code uses on optional values *)

None == <<>>
Some(v) == <<v>>
IsNone(o) == o = <<>>
Val(o) == o[1]

\* a or b, on values whose only falsy inhabitant in the model is None
Or(a, b) == IF IsNone(a) THEN b ELSE a

\* (a.get(k, 0) or 0)
OrZero(o) == IF IsNone(o) THEN 0 ELSE Val(o)

RECURSIVE SumSeq(_)
SumSeq(s) == IF s = <<>> THEN 0 ELSE Head(s) + SumSeq(Tail(s))

---------------------------------------------------------------------------
(* ISO-8601 calendar of a timestamp: Series.dt.isocalendar() *)

\* civil year of a day number (days since 1970-01-01, proleptic Gregorian)
YearOfDay(d) ==
    LET z == d + 719468
        era == z \div 146097
        doe == z - era * 146097
        yoe == (doe - doe \div 1460 + doe \div 36524 - doe \div 146096) \div 365
        doy == doe - (365 * yoe + yoe \div 4 - yoe \div 100)
        mp == (5 * doy + 2) \div 153
        m == IF mp < 10 THEN mp + 3 ELSE mp - 9
    IN  yoe + era * 400 + (IF m <= 2 THEN 1 ELSE 0)

\* day number of 1 January of year y
FirstDayOfYear(y) ==
    LET yy == y - 1
        era == yy \div 400
        yoe == yy - era * 400
        doe == yoe * 365 + yoe \div 4 - yoe \div 100 + 306
    IN  era * 146097 + doe - 719468

\* 1 = Monday .. 7 = Sunday; 1970-01-01 was a Thursday
IsoWeekday(d) == ((d + 3) % 7) + 1

\* the ISO year and week of a day are those of the Thursday of its week
IsoCalendar(d) ==
    LET thursday == d - IsoWeekday(d) + 4
        y == YearOfDay(thursday)
    IN  [year |-> y, week |-> (thursday - FirstDayOfYear(y)) \div 7 + 1]

DayOf(t) == BaseDay + t \div TicksPerDay

\* Timestamp.normalize(): midnight of the same day
Normalize(t) == (t \div TicksPerDay) * TicksPerDay

\* timedelta(days=n)
Days(n) == n * TicksPerDay

\* str.zfill(2)
zfill2(s) == IF Len(s) < 2 THEN "0" \o s ELSE s

\* astype(str) of a nullable value
AsStr(o) == IF IsNone(o) THEN "<NA>" ELSE ToString(Val(o))

---------------------------------------------------------------------------
(* activities_to_dataframe *)

RunFamily == {"Run", "TrailRun"}

\* mutant: a reported 0 is taken for a missing value ("if not calories")
EstimateCalories_falsyZero(a, sport, distance_km) ==
    LET reported == IF IsNone(a.calories) \/ Val(a.calories) = 0 THEN None
                    ELSE Some(Val(a.calories) * Milli)
        afterKj == IF IsNone(reported) /\ ~IsNone(a.kilojoules)
                   THEN Some(Val(a.kilojoules) * KJ_TO_KCAL_MILLI)
                   ELSE reported
    IN  IF IsNone(afterKj) /\ ~IsNone(sport) /\ Val(sport) \in RunFamily
        THEN Some(ATHLETE_WEIGHT_KG * distance_km)
        ELSE afterKj

\* calories of one raw record before fillna: lines 104-112
EstimateCalories(a, sport, distance_km) ==
    LET reported == IF IsNone(a.calories) THEN None
                    ELSE Some(Val(a.calories) * Milli)
        afterKj == IF IsNone(reported) /\ ~IsNone(a.kilojoules)
                   THEN Some(Val(a.kilojoules) * KJ_TO_KCAL_MILLI)
                   ELSE reported
    IN  IF IsNone(afterKj) /\ ~IsNone(sport) /\ Val(sport) \in RunFamily
        THEN Some(ATHLETE_WEIGHT_KG * distance_km)
        ELSE afterKj

\* the dict appended to rows for one raw record: lines 99-126
RawRow(a) ==
    LET sport == Or(a.sport_type, a.type)
        distance_km == OrZero(a.distance)
        moving_time_min == OrZero(a.moving_time)
    IN  [id |-> a.id,
         sport |-> sport,
         distance_km |-> distance_km,
         moving_time_min |-> moving_time_min,
         start_date |-> Or(a.start_date_local, a.start_date),
         calories |-> EstimateCalories(a, sport, distance_km)]

\* the column operations on one row: lines 132-142
FinishRow(r) ==
    LET iso == IF IsNone(r.start_date) THEN None
               ELSE Some(IsoCalendar(DayOf(Val(r.start_date))))
        iso_year == IF IsNone(iso) THEN None ELSE Some(Val(iso).year)
        iso_week == IF IsNone(iso) THEN None ELSE Some(Val(iso).week)
    IN  [id |-> r.id,
         sport |-> r.sport,
         distance_km |-> r.distance_km,
         moving_time_min |-> r.moving_time_min,
         start_date |-> r.start_date,
         calories |-> Some(OrZero(r.calories)),
         iso_year |-> iso_year,
         iso_week |-> iso_week,
         week_label |-> Some(AsStr(iso_year) \o "-W" \o zfill2(AsStr(iso_week)))]

activities_to_dataframe(activities) ==
    [i \in 1..Len(activities) |-> FinishRow(RawRow(activities[i]))]

---------------------------------------------------------------------------
(* compute_period_stats *)

InPeriod(r, limit) ==
    ~IsNone(r.start_date) /\ ~IsNone(limit) /\ Val(r.start_date) >= Val(limit)

IsRun(r) == ~IsNone(r.sport) /\ Val(r.sport) = "Run"

\* the columns of a frame
Distances(frame) == [i \in 1..Len(frame) |-> frame[i].distance_km]
MovingTimes(frame) == [i \in 1..Len(frame) |-> frame[i].moving_time_min]
Kcals(frame) == [i \in 1..Len(frame) |-> Val(frame[i].calories)]

\* run_time_min / run_dist: minutes per km as an exact fraction
\* (moving_time_min / 60) / (distance_km / 1000)
RunPace(run_df) ==
    LET run_dist == SumSeq(Distances(run_df))
    IN  IF run_dist > 0
        THEN Some([num |-> SumSeq(MovingTimes(run_df)) * Milli,
                   den |-> 60 * run_dist])
        ELSE None

\* mutant: a window without calories is taken for an empty one
PeriodIsEmpty_noKcal(period_df) == SumSeq(Kcals(period_df)) = 0

PeriodIsEmpty(period_df) == period_df = <<>>

\* total_heures is kept as the sum of moving_time_min (sixtieths of a minute)
compute_period_stats(frame, limit) ==
    LET Keep(r) == InPeriod(r, limit)
        period_df == SelectSeq(frame, Keep)
        run_df == SelectSeq(period_df, IsRun)
    IN  IF PeriodIsEmpty(period_df) THEN None
        ELSE Some([total_kcal |-> SumSeq(Kcals(period_df)),
                   total_activites |-> Len(period_df),
                   total_heures |-> SumSeq(MovingTimes(period_df)),
                   run_kcal |-> SumSeq(Kcals(run_df)),
                   run_activites |-> Len(run_df),
                   run_distance_km |-> SumSeq(Distances(run_df)),
                   run_pace_min_per_km |-> RunPace(run_df)])

---------------------------------------------------------------------------
(* compute_weekly_totals (both scripts): groupby drops the rows whose key *)
(* holds a missing value, and the result is sorted by iso_year, iso_week  *)

WeekKey(r) == [iso_year |-> r.iso_year, iso_week |-> r.iso_week,
               week_label |-> r.week_label]

\* groupby(..., dropna=True), the default
GroupKeys(frame) ==
    {WeekKey(frame[i]) : i \in {j \in 1..Len(frame) :
        /\ ~IsNone(frame[j].iso_year)
        /\ ~IsNone(frame[j].iso_week)
        /\ ~IsNone(frame[j].week_label)}}

KeyBefore(k1, k2) ==
    \/ Val(k1.iso_year) < Val(k2.iso_year)
    \/ /\ Val(k1.iso_year) = Val(k2.iso_year)
       /\ Val(k1.iso_week) <= Val(k2.iso_week)

RECURSIVE SortKeys(_)
SortKeys(keys) ==
    IF keys = {} THEN <<>>
    ELSE LET first == CHOOSE k \in keys : \A o \in keys : KeyBefore(k, o)
         IN  <<first>> \o SortKeys(keys \ {first})

Bucket(frame, key) ==
    LET InGroup(r) == WeekKey(r) = key
        group == SelectSeq(frame, InGroup)
    IN  [iso_year |-> Val(key.iso_year),
         iso_week |-> Val(key.iso_week),
         week_label |-> Val(key.week_label),
         total_kcal |-> SumSeq(Kcals(group))]

compute_weekly_totals(frame) ==
    LET keys == SortKeys(GroupKeys(frame))
    IN  [i \in 1..Len(keys) |-> Bucket(frame, keys[i])]

---------------------------------------------------------------------------
(* format_pace *)

\* round(n / d) for n >= 0, d > 0: Python rounds a half to the even integer
\* (a decimal half that is no binary half falls to either side in the code)
Round(n, d) ==
    LET q == n \div d
        r == n % d
    IN  IF 2 * r < d THEN q
        ELSE IF 2 * r > d THEN q + 1
        ELSE IF q % 2 = 0 THEN q ELSE q + 1

\* mutant: no carry of 60 seconds into the minutes
PaceParts_noCarry(x) ==
    LET mins == x.num \div x.den
    IN  [mins |-> mins, secs |-> Round((x.num - mins * x.den) * 60, x.den)]

\* mins and secs after the carry: lines 154-158
PaceParts(x) ==
    LET mins == x.num \div x.den
        secs == Round((x.num - mins * x.den) * 60, x.den)
    IN  IF secs = 60 THEN [mins |-> mins + 1, secs |-> 0]
        ELSE [mins |-> mins, secs |-> secs]

format_pace(m) ==
    IF IsNone(m) \/ Val(m).num <= 0 THEN "N/A"
    ELSE LET p == PaceParts(Val(m))
         IN  ToString(p.mins) \o ":" \o zfill2(ToString(p.secs)) \o "/km"

---------------------------------------------------------------------------
(* load-risk classification: lines 261-282 *)

\* fraction f compared with the integer k
Gt(f, k) == f.num > k * f.den
Lt(f, k) == f.num < k * f.den

\* mutant: the change is taken relative to the current distance
DeltaRunPct_overCurrent(cur, prev) ==
    IF prev > 0 /\ cur > 0 THEN Some([num |-> (cur - prev) * 100, den |-> cur])
    ELSE None

DeltaRunPct(cur, prev) ==
    IF prev > 0 THEN Some([num |-> (cur - prev) * 100, den |-> prev])
    ELSE None

\* mutant: the 30 % threshold is inclusive
RisqueCharge_inclusive(delta) ==
    IF IsNone(delta) THEN "N/A"
    ELSE IF ~Lt(Val(delta), ELEVE_PCT) THEN "ELEVE"
    ELSE IF Gt(Val(delta), MODERE_PCT) THEN "MODERE"
    ELSE IF Lt(Val(delta), BASSE_PCT) THEN "BASSE"
    ELSE "FAIBLE"

RisqueCharge(delta) ==
    IF IsNone(delta) THEN "N/A"
    ELSE IF Gt(Val(delta), ELEVE_PCT) THEN "ELEVE"
    ELSE IF Gt(Val(delta), MODERE_PCT) THEN "MODERE"
    ELSE IF Lt(Val(delta), BASSE_PCT) THEN "BASSE"
    ELSE "FAIBLE"

---------------------------------------------------------------------------
(* report generation: lines 242-259 *)

\* df["start_date"].max(): NaT is skipped, and is the result of an all-NaT column
MaxStartDate(frame) ==
    LET dated == {i \in 1..Len(frame) : ~IsNone(frame[i].start_date)}
    IN  IF dated = {} THEN None
        ELSE Some(CHOOSE t \in {Val(frame[i].start_date) : i \in dated} :
                    \A i \in dated : Val(frame[i].start_date) <= t)

RefDate(frame) ==
    LET m == MaxStartDate(frame)
    IN  IF IsNone(m) THEN None ELSE Some(Normalize(Val(m)))

\* ref_date - timedelta(days=n); NaT stays NaT
Minus(ref, n) == IF IsNone(ref) THEN None ELSE Some(Val(ref) - Days(n))

Start7d(ref) == Minus(ref, 7)
Start14d(ref) == Minus(ref, 14)
Start30d(ref) == Minus(ref, 30)

\* stats_7d["run_distance_km"] if stats_7d else 0.0
RunDist7d(s7) == IF IsNone(s7) THEN 0 ELSE Val(s7).run_distance_km

MaskPrev(r, ref) ==
    /\ InPeriod(r, Start14d(ref))
    /\ ~IsNone(r.start_date) /\ ~IsNone(ref)
    /\ Val(r.start_date) < Val(Start7d(ref))
    /\ IsRun(r)

RunDistPrev7d(frame, ref) ==
    LET Keep(r) == MaskPrev(r, ref)
    IN  SumSeq(Distances(SelectSeq(frame, Keep)))

---------------------------------------------------------------------------
(* The raw records the service may hold *)

Raw(st, ty, dist, mt, cal, kj, sdl, sd) ==
    [id |-> None, sport_type |-> st, type |-> ty, distance |-> dist,
     moving_time |-> mt, calories |-> cal, kilojoules |-> kj,
     start_date_local |-> sdl, start_date |-> sd]

\* records of the report specifications: sports, distances, calories and
\* start dates around the window boundaries of a reference day 15
ReportDates == {None, Some(1), Some(2), Some(15), Some(16), Some(30), Some(31)}

ReportRecords ==
    {Raw(Some(st), None, dist, Some(1500), cal, None, sdl, None) :
        st \in {"Run", "TrailRun", "Ride"},
        dist \in {None, Some(5000)},
        cal \in {None, Some(300)},
        sdl \in ReportDates}

\* records of the normalisation specification: every combination of present
\* and absent sport, distance, calories and kilojoules (the timestamps fixed),
\* and every combination of present and absent timestamps (the rest fixed)
CalorieRecords ==
    {Raw(st, ty, dist, Some(3000), cal, kj, Some(4), None) :
        st \in {None, Some("Run"), Some("TrailRun"), Some("Ride")},
        ty \in {None, Some("Run")},
        dist \in {None, Some(10000)},
        cal \in {None, Some(0), Some(500)},
        kj \in {None, Some(1000)}}

TimestampRecords ==
    {Raw(Some("Ride"), Some("Ride"), Some(10000), Some(3000), Some(500), None,
         sdl, sd) :
        sdl \in {None, Some(4)},
        sd \in {None, Some(3)}}

NormRecords == CalorieRecords \cup TimestampRecords

\* records of the period-statistics specification
PeriodRecords ==
    {Raw(Some(st), None, dist, Some(1500), cal, None, sdl, None) :
        st \in {"Run", "Ride"},
        dist \in {None, Some(5000)},
        cal \in {None, Some(300)},
        sdl \in {None, Some(1), Some(3), Some(5)}}

\* records of the fetch specification
FetchRecords ==
    {Raw(Some(st), None, Some(5000), Some(1500), None, None, Some(t), None) :
        st \in {"Run", "Ride"}, t \in {2, 16}}

---------------------------------------------------------------------------
(* State after the script is loaded, before the button is pressed *)

NoResp == [status |-> 0, body |-> <<>>]

FetchBlank == page = 1 /\ resp = NoResp /\ all_activities = <<>>

StatsBlank ==
    /\ ref_date = None
    /\ stats_7d = None /\ stats_30d = None /\ stats_prev_7d = None
    /\ start_limit = None
    /\ stats = None
    /\ weekly = <<>>

RiskBlank ==
    /\ run_dist_7d = 0 /\ run_dist_prev_7d = 0
    /\ delta_run_pct = None /\ risque_charge = ""

PaceBlank == min_per_km = None /\ pace_text = ""

Blank == FetchBlank /\ df = <<>> /\ StatsBlank /\ RiskBlank /\ PaceBlank

Init == pc = "token" /\ Blank

---------------------------------------------------------------------------
(* get_access_token: lines 28-50 *)

GetAccessToken ==
    /\ pc = "token"
    /\ \E outcome \in {"ok", "http_error", "no_token"} :
         pc' = IF outcome = "ok" THEN "fetch" ELSE "error"
    /\ UNCHANGED <<page, resp, all_activities, df, ref_date, stats_7d,
                   stats_30d, stats_prev_7d, run_dist_7d, run_dist_prev_7d,
                   delta_run_pct, risque_charge, min_per_km, pace_text,
                   start_limit, stats, weekly>>

(* fetch_activities, one turn of the while loop: lines 67-87 *)

\* all_activities.extend(activities); the model stores at most MaxActs records
Extend(all, body) ==
    IF Len(all) + Len(body) <= MaxActs THEN all \o body ELSE all

\* page += 1; the model counts pages up to MaxPage
NextPage(p) == IF p < MaxPage THEN p + 1 ELSE p

\* the loop goes on while the response is a non-empty page
LoopContinues(status, body) == status = 200 /\ body # <<>>

FetchPage(status, body) ==
    /\ pc = "fetch"
    /\ resp' = [status |-> status, body |-> body]
    /\ IF status # 200
       THEN pc' = "error" /\ UNCHANGED <<page, all_activities>>
       ELSE IF ~LoopContinues(status, body)
       THEN pc' = "fetched" /\ UNCHANGED <<page, all_activities>>
       ELSE /\ pc' = "fetch"
            /\ all_activities' = Extend(all_activities, body)
            /\ page' = NextPage(page)
    /\ UNCHANGED <<df, ref_date, stats_7d, stats_30d, stats_prev_7d,
                   run_dist_7d, run_dist_prev_7d, delta_run_pct,
                   risque_charge, min_per_km, pace_text, start_limit,
                   stats, weekly>>

\* the service stamps each record with an id; a page holds one record
Stamp(r, n) == [r EXCEPT !.id = Some(n)]

\* a service that holds at most MaxActs records of the universe
BoundedService(universe) ==
    \/ FetchPage(500, <<>>)
    \/ FetchPage(200, <<>>)
    \/ /\ Len(all_activities) < MaxActs
       /\ \E r \in universe : FetchPage(200, <<Stamp(r, page)>>)

\* a service that may answer anything to any page number
AnyService(universe) ==
    \/ FetchPage(500, <<>>)
    \/ FetchPage(200, <<>>)
    \/ \E r \in universe : FetchPage(200, <<Stamp(r, page)>>)

---------------------------------------------------------------------------
(* df = activities_to_dataframe(activities); st.stop() on an empty frame: *)
(* lines 236-240                                                          *)

ActivitiesToDataframe ==
    /\ pc = "fetched"
    /\ df' = activities_to_dataframe(all_activities)
    /\ pc' = IF df' = <<>> THEN "stopped" ELSE "df"
    /\ UNCHANGED <<page, resp, all_activities, ref_date, stats_7d, stats_30d,
                   stats_prev_7d, run_dist_7d, run_dist_prev_7d,
                   delta_run_pct, risque_charge, min_per_km, pace_text,
                   start_limit, stats, weekly>>

(* the windows, their statistics and the risk indicator: lines 242-282 *)

GenerateReport ==
    /\ pc = "df"
    /\ ref_date' = RefDate(df)
    /\ stats_7d' = compute_period_stats(df, Start7d(ref_date'))
    /\ stats_30d' = compute_period_stats(df, Start30d(ref_date'))
    /\ stats_prev_7d' = compute_period_stats(df, Start14d(ref_date'))
    /\ run_dist_7d' = RunDist7d(stats_7d')
    /\ run_dist_prev_7d' = RunDistPrev7d(df, ref_date')
    /\ delta_run_pct' = DeltaRunPct(run_dist_7d', run_dist_prev_7d')
    /\ risque_charge' = RisqueCharge(delta_run_pct')
    /\ pc' = "report"
    /\ UNCHANGED <<page, resp, all_activities, df, min_per_km, pace_text,
                   start_limit, stats, weekly>>

(* the text of the report: lines 298-369.  ref_date.strftime raises on NaT; *)
(* the pace of the 7-day block goes through format_pace                     *)

RenderReport ==
    /\ pc = "report"
    /\ IF IsNone(ref_date)
       THEN pc' = "error" /\ UNCHANGED <<min_per_km, pace_text>>
       ELSE /\ pc' = "rendered"
            /\ IF IsNone(stats_7d)
               THEN UNCHANGED <<min_per_km, pace_text>>
               ELSE /\ min_per_km' = Val(stats_7d).run_pace_min_per_km
                    /\ pace_text' = format_pace(min_per_km')
    /\ UNCHANGED <<page, resp, all_activities, df, ref_date, stats_7d,
                   stats_30d, stats_prev_7d, run_dist_7d, run_dist_prev_7d,
                   delta_run_pct, risque_charge, start_limit, stats, weekly>>

(* weekly = compute_weekly_totals(df): line 373 *)

WeeklyChart ==
    /\ pc = "rendered"
    /\ weekly' = compute_weekly_totals(df)
    /\ pc' = "done"
    /\ UNCHANGED <<page, resp, all_activities, df, ref_date, stats_7d,
                   stats_30d, stats_prev_7d, run_dist_7d, run_dist_prev_7d,
                   delta_run_pct, risque_charge, min_per_km, pace_text,
                   start_limit, stats>>

FetchReport == BoundedService(ReportRecords)

Next ==
    \/ GetAccessToken
    \/ FetchReport
    \/ ActivitiesToDataframe
    \/ GenerateReport
    \/ RenderReport
    \/ WeeklyChart

Spec == Init /\ [][Next]_vars

---------------------------------------------------------------------------
(* Normalisation alone, over NormRecords *)

FetchNorm == BoundedService(NormRecords)

NormNext ==
    \/ GetAccessToken
    \/ FetchNorm
    \/ ActivitiesToDataframe

NormSpec == Init /\ [][NormNext]_vars

---------------------------------------------------------------------------
(* compute_period_stats alone, on the frames of PeriodRecords and on any   *)
(* start_limit                                                            *)

CallPeriodStats(limit) ==
    /\ pc = "df"
    /\ start_limit' = limit
    /\ stats' = compute_period_stats(df, limit)
    /\ pc' = "df"
    /\ UNCHANGED <<page, resp, all_activities, df, ref_date, stats_7d,
                   stats_30d, stats_prev_7d, run_dist_7d, run_dist_prev_7d,
                   delta_run_pct, risque_charge, min_per_km, pace_text,
                   weekly>>

PeriodStatsCalls == \E t \in 0..MaxLimit : CallPeriodStats(Some(t))

FetchPeriod == BoundedService(PeriodRecords)

PeriodNext ==
    \/ GetAccessToken
    \/ FetchPeriod
    \/ ActivitiesToDataframe
    \/ PeriodStatsCalls

PeriodSpec == Init /\ [][PeriodNext]_vars

---------------------------------------------------------------------------
(* The risk classification alone, on any pair of distances *)

RiskInit ==
    /\ pc = "risk"
    /\ FetchBlank /\ df = <<>> /\ StatsBlank /\ PaceBlank
    /\ run_dist_7d \in 0..MaxCurM
    /\ run_dist_prev_7d \in {k * Milli : k \in 0..MaxPrevKm}
    /\ delta_run_pct = None /\ risque_charge = ""

ClassifyRisk ==
    /\ pc = "risk"
    /\ delta_run_pct' = DeltaRunPct(run_dist_7d, run_dist_prev_7d)
    /\ risque_charge' = RisqueCharge(delta_run_pct')
    /\ pc' = "classified"
    /\ UNCHANGED <<page, resp, all_activities, df, ref_date, stats_7d,
                   stats_30d, stats_prev_7d, run_dist_7d, run_dist_prev_7d,
                   min_per_km, pace_text, start_limit, stats, weekly>>

RiskNext == ClassifyRisk

RiskSpec == RiskInit /\ [][RiskNext]_vars

---------------------------------------------------------------------------
(* format_pace alone, on any pace in thousandths of a minute per km *)

PaceInit ==
    /\ pc = "pace"
    /\ FetchBlank /\ df = <<>> /\ StatsBlank /\ RiskBlank
    /\ min_per_km \in {None} \cup
         {Some([num |-> n, den |-> Milli]) : n \in -1..MaxPaceMilli}
    /\ pace_text = ""

FormatPace ==
    /\ pc = "pace"
    /\ pace_text' = format_pace(min_per_km)
    /\ pc' = "formatted"
    /\ UNCHANGED <<page, resp, all_activities, df, ref_date, stats_7d,
                   stats_30d, stats_prev_7d, run_dist_7d, run_dist_prev_7d,
                   delta_run_pct, risque_charge, min_per_km, start_limit,
                   stats, weekly>>

PaceNext == FormatPace

PaceSpec == PaceInit /\ [][PaceNext]_vars

---------------------------------------------------------------------------
(* fetch_activities alone, against a service free to answer anything.  The *)
(* loop runs as long as the script does: weak fairness of its steps.       *)

FetchAny == AnyService(FetchRecords)

FetchNext ==
    \/ GetAccessToken
    \/ FetchAny

FetchFairSpec == Init /\ [][FetchNext]_vars /\ WF_vars(FetchNext)

---------------------------------------------------------------------------
(* Properties *)

Framed == pc \in {"df", "report", "rendered", "done"}

HasNoTimestamp(a) == IsNone(a.start_date_local) /\ IsNone(a.start_date)

\* C1 (NormSpec): the calories of every row follow the resolution order:
\* the reported calories if present (a reported 0 included), else
\* kilojoules x 0.239 if present, else body mass x distance for a Run or
\* TrailRun, else 0.
C1_CalorieResolution ==
    Framed =>
      \A i \in 1..Len(all_activities) :
        LET a == all_activities[i]
            r == df[i]
            noCal == IsNone(a.calories)
            noKj == IsNone(a.kilojoules)
            running == r.sport \in {Some("Run"), Some("TrailRun")}
        IN  /\ ~noCal => r.calories = Some(Val(a.calories) * Milli)
            /\ noCal /\ ~noKj =>
                 r.calories = Some(Val(a.kilojoules) * KJ_TO_KCAL_MILLI)
            /\ noCal /\ noKj /\ running =>
                 r.calories = Some(ATHLETE_WEIGHT_KG * r.distance_km)
            /\ noCal /\ noKj /\ ~running => r.calories = Some(0)

\* a record with calories=500 and kilojoules=1000 was normalised to 500 kcal
C1_Witness ==
    /\ pc = "df"
    /\ \E i \in 1..Len(all_activities) :
         /\ all_activities[i].calories = Some(500)
         /\ all_activities[i].kilojoules = Some(1000)
         /\ df[i].calories = Some(500 * Milli)

\* C5 (NormSpec): every row of the frame has non-null calories, sport,
\* start_date, iso_year, iso_week and week_label; a record with neither
\* sport_type nor type has sport "Unknown"; a record with no calorie
\* information has calories 0.0.
C5_RowsComplete ==
    Framed =>
      \A i \in 1..Len(all_activities) :
        LET a == all_activities[i]
            r == df[i]
        IN  /\ ~IsNone(r.calories) /\ ~IsNone(r.sport)
            /\ ~IsNone(r.start_date)
            /\ ~IsNone(r.iso_year) /\ ~IsNone(r.iso_week)
            /\ ~IsNone(r.week_label)
            /\ IsNone(a.sport_type) /\ IsNone(a.type) =>
                 r.sport = Some("Unknown")
            /\ IsNone(a.calories) /\ IsNone(a.kilojoules)
                 /\ IsNone(a.sport_type) /\ IsNone(a.type) =>
                 r.calories = Some(0)

\* C6 (NormSpec): a record with neither start_date_local nor start_date is
\* never turned into a row (its outcome is an error), and every other
\* record of the batch is.
C6_MissingTimestampRejected ==
    pc \in {"df", "stopped"} =>
      \A i \in 1..Len(all_activities) :
        LET a == all_activities[i]
            rowsOfA == {j \in 1..Len(df) : df[j].id = a.id}
        IN  IF HasNoTimestamp(a) THEN rowsOfA = {} ELSE rowsOfA # {}


\* C2 (RiskSpec): for every pair of distances the classification is the
\* reference rule: previous = 0 gives N/A with no delta; otherwise delta is
\* (current - previous) / previous x 100 and the level is ELEVE above 30,
\* else MODERE above 20, else BASSE below -10, else FAIBLE, all strict.
C2_ReferenceRule ==
    pc = "classified" =>
      LET cur == run_dist_7d
          prev == run_dist_prev_7d
          level == IF 10 * cur > 13 * prev THEN "ELEVE"
                   ELSE IF 10 * cur > 12 * prev THEN "MODERE"
                   ELSE IF 10 * cur < 9 * prev THEN "BASSE"
                   ELSE "FAIBLE"
      IN  /\ prev = 0 => risque_charge = "N/A" /\ IsNone(delta_run_pct)
          /\ prev # 0 =>
               /\ delta_run_pct
                    = Some([num |-> 100 * cur - 100 * prev, den |-> prev])
               /\ risque_charge = level

\* 12.5 km after 10 km (+25 %) was classified MODERE
C2_Witness ==
    /\ pc = "classified"
    /\ run_dist_7d = 12500 /\ run_dist_prev_7d = 10000
    /\ risque_charge = "MODERE"

\* C3 (RiskSpec), as claimed: a delta of exactly 30 % is FAIBLE (LOW), not
\* ELEVE; a delta of 30.1 % is ELEVE.
C3_ThirtyIsLow ==
    pc = "classified" /\ ~IsNone(delta_run_pct) =>
      LET d == Val(delta_run_pct)
      IN  /\ d.num = 30 * d.den => risque_charge = "FAIBLE"
          /\ 10 * d.num = 301 * d.den => risque_charge = "ELEVE"

\* C3 (RiskSpec), amended: a delta of exactly 30 % is MODERE (MODERATE), not
\* ELEVE; a delta of 30.1 % is ELEVE.
C3_ThirtyIsModerate ==
    pc = "classified" /\ ~IsNone(delta_run_pct) =>
      LET d == Val(delta_run_pct)
      IN  /\ d.num = 30 * d.den => risque_charge = "MODERE"
          /\ 10 * d.num = 301 * d.den => risque_charge = "ELEVE"

\* 13 km after 10 km (+30 % exactly) was classified MODERE
C3_Witness ==
    /\ pc = "classified"
    /\ run_dist_7d = 13000 /\ run_dist_prev_7d = 10000
    /\ delta_run_pct = Some([num |-> 300000, den |-> 10000])
    /\ risque_charge = "MODERE"

TotalKcals(w) == [i \in 1..Len(w) |-> w[i].total_kcal]

\* C4 (Spec): the total_kcal of the weekly buckets add up to the calories of
\* the rows of the frame: no activity is lost, none is counted twice.
C4_WeeklyTotalsAddUp ==
    pc = "done" =>
      SumSeq(TotalKcals(weekly)) = SumSeq(Kcals(df))

\* what a call of compute_period_stats must do, as a step
C7_StatsCall ==
    /\ pc' = "df"
    /\ df' = df
    /\ IsNone(stats') <=>
         ~\E i \in 1..Len(df) :
            /\ ~IsNone(df[i].start_date)
            /\ Val(df[i].start_date) >= Val(start_limit')
    /\ ~IsNone(stats') =>
         (IsNone(Val(stats').run_pace_min_per_km)
            <=> Val(stats').run_distance_km = 0)
    /\ start_limit' = start_limit => stats' = stats

\* C7 (PeriodSpec): a call of compute_period_stats(df, start_limit) leaves df
\* unchanged, returns None exactly when no row has start_date >= start_limit,
\* otherwise returns statistics whose pace is absent exactly when the running
\* distance is 0, and returns what the previous call returned when it is
\* given the same start_limit.
C7_PeriodStats == [][pc = "df" => C7_StatsCall]_vars

\* a window that holds a run of distance 0 and no calories gave statistics,
\* with the pace absent
C7_Witness ==
    /\ pc = "df"
    /\ ~IsNone(stats)
    /\ Val(stats).total_kcal = 0
    /\ Val(stats).run_activites > 0
    /\ IsNone(Val(stats).run_pace_min_per_km)

\* C8 (Spec): the current distance is that of the Run rows of the 7 days
\* ending at ref_date, the previous distance that of the Run rows of the 7
\* days before (ref - 14d <= start_date < ref - 7d).
C8_AdjacentWeeks ==
    pc \in {"report", "rendered", "done"} /\ ~IsNone(ref_date) =>
      LET ref == Val(ref_date)
          InCurrent(r) == /\ IsRun(r) /\ ~IsNone(r.start_date)
                          /\ ref - Days(7) <= Val(r.start_date)
                          /\ Val(r.start_date) <= ref
          InPrevious(r) == /\ IsRun(r) /\ ~IsNone(r.start_date)
                           /\ ref - Days(14) <= Val(r.start_date)
                           /\ Val(r.start_date) < ref - Days(7)
      IN  /\ run_dist_7d = SumSeq(Distances(SelectSeq(df, InCurrent)))
          /\ run_dist_prev_7d =
               SumSeq(Distances(SelectSeq(df, InPrevious)))

\* C9 (FetchFairSpec): fetch_activities terminates, whatever the service
\* answers.
C9_FetchTerminates == <>(pc \in {"fetched", "error"})

TwoDigits(n) == ToString(n \div 10) \o ToString(n % 10)

Abs(n) == IF n < 0 THEN -n ELSE n

\* C10 (PaceSpec): format_pace gives "N/A" for an absent pace or one <= 0,
\* and otherwise "M:SS/km" with SS in 00..59 and M*60+SS the pace rounded to
\* the nearest second.
C10_PaceFormat ==
    pc = "formatted" =>
      IF IsNone(min_per_km) \/ Val(min_per_km).num <= 0
      THEN pace_text = "N/A"
      ELSE LET num == Val(min_per_km).num
               den == Val(min_per_km).den
           IN  \E M \in 0..(num \div den + 1), SS \in 0..59 :
                 /\ pace_text = ToString(M) \o ":" \o TwoDigits(SS) \o "/km"
                 /\ 2 * Abs((M * 60 + SS) * den - 60 * num) <= den

\* 5.999 min/km was formatted 6:00/km
C10_Witness ==
    /\ pc = "formatted"
    /\ min_per_km = Some([num |-> 5999, den |-> Milli])
    /\ pace_text = "6:00/km"


InRunFamily(r) == ~IsNone(r.sport) /\ Val(r.sport) \in RunFamily

\* C11 (Spec): the running family is the same everywhere: every row whose
\* sport is Run or TrailRun (the family of the calorie heuristic) and whose
\* start_date is in the window is counted in the running sub-summary of
\* compute_period_stats (run_kcal, run_activites, run_distance_km) and in the
\* current and previous running distances of the risk classification.  The
\* windows are those the code uses.
C11_RunFamilyEverywhere ==
    pc \in {"report", "rendered", "done"} /\ ~IsNone(ref_date) =>
      LET InCurrent(r) == InRunFamily(r) /\ InPeriod(r, Start7d(ref_date))
          InPrevious(r) == /\ InRunFamily(r)
                           /\ InPeriod(r, Start14d(ref_date))
                           /\ Val(r.start_date) < Val(Start7d(ref_date))
          current == SelectSeq(df, InCurrent)
      IN  /\ ~IsNone(stats_7d)
          /\ Val(stats_7d).run_activites = Len(current)
          /\ Val(stats_7d).run_distance_km = SumSeq(Distances(current))
          /\ Val(stats_7d).run_kcal = SumSeq(Kcals(current))
          /\ run_dist_7d = SumSeq(Distances(current))
          /\ run_dist_prev_7d = SumSeq(Distances(SelectSeq(df, InPrevious)))

=============================================================================
